---- MODULE Spec2Model ----
(***************************************************************************)
(* A model of the Compreezor dynamics processor: the gain computer         *)
(* (CompreezorAudioProcessor::calcCompressorGain), the per-sample loop of  *)
(* processBlock, prepareToPlay and the editor callbacks that write the     *)
(* processor's public parameters.                                          *)
(*                                                                         *)
(* Numbers.  The code computes in IEEE float/double.  Here a value in dB   *)
(* (threshold, knee width, detected level, gain reduction), the ratio and  *)
(* the compression slope are exact rationals [n |-> numerator,             *)
(* d |-> denominator > 0] in lowest terms; a linear amplitude (a sample, a *)
(* linear gain, the running envelope) is a fixed-point integer counted in  *)
(* units of 1/LinOne, every product rounded to the nearest unit.  The two  *)
(* comparisons that choose the soft-knee branch are made as the code makes *)
(* them, on the single-precision values of their operands.                 *)
(***************************************************************************)
EXTENDS Integers, Naturals, Sequences, FiniteSets, TLC

-----------------------------------------------------------------------------
(* Exact rational arithmetic for the dB domain.                            *)

Abs(i) == IF i < 0 THEN -i ELSE i

RECURSIVE GCD(_, _)
GCD(a, b) == IF b = 0 THEN a ELSE GCD(b, a % b)

\* n/d in lowest terms with a positive denominator (d # 0).
Q(n, d) ==
    LET g == GCD(Abs(n), Abs(d))
        s == IF d < 0 THEN -1 ELSE 1
    IN  [n |-> (s * n) \div g, d |-> (s * d) \div g]

QInt(i)    == [n |-> i, d |-> 1]
\* Sums and products are reduced before they are multiplied out.
QAdd(a, b) ==
    LET g == GCD(a.d, b.d)
    IN  Q(a.n * (b.d \div g) + b.n * (a.d \div g), (a.d \div g) * b.d)
QNeg(a)    == [n |-> -a.n, d |-> a.d]
QSub(a, b) == QAdd(a, QNeg(b))
QMul(a, b) ==
    LET g1 == GCD(Abs(a.n), b.d)
        g2 == GCD(Abs(b.n), a.d)
    IN  Q((a.n \div g1) * (b.n \div g2), (a.d \div g2) * (b.d \div g1))
\* 1/b (b # 0).
QInv(b)    == IF b.n < 0 THEN [n |-> -b.d, d |-> -b.n] ELSE [n |-> b.d, d |-> b.n]
QDiv(a, b) == QMul(a, QInv(b))
QLt(a, b)  == a.n * b.d < b.n * a.d
QLe(a, b)  == a.n * b.d <= b.n * a.d
QHalf(a)   == Q(a.n, 2 * a.d)
QZero      == QInt(0)

\* juce::jmin (a, b): (b < a) ? b : a
jmin(a, b) == IF QLt(b, a) THEN b ELSE a

-----------------------------------------------------------------------------
(* Fixed-point arithmetic for the linear domain.                           *)

\* The fixed-point representation of 1.0f.
LinOne == 10 ^ 6

Sign(i) == IF i < 0 THEN -1 ELSE 1

\* a * b of two fixed-point values, rounded to the nearest unit; the product
\* is formed from base-1000 digits so that no intermediate exceeds 2^31.
MulFix(a, b) ==
    LET x  == Abs(a)
        y  == Abs(b)
        x1 == x \div 1000
        x0 == x % 1000
        y1 == y \div 1000
        y0 == y % 1000
        t  == x1 * y0 + x0 * y1
        m  == x1 * y1 + (t \div 1000)
              + (((t % 1000) * 1000 + x0 * y0 + 500000) \div 1000000)
    IN  Sign(a) * Sign(b) * m

\* A rational rounded to the nearest integer (halves away from zero).
RoundQ(q) ==
    LET a == Abs(q.n)
        r == (2 * a + q.d) \div (2 * q.d)
    IN  IF q.n < 0 THEN -r ELSE r

\* 10^(-k/20), 10^(-k/200), 10^(-k/2000) and 10^(-k/20000) in fixed point,
\* k = 0, 1, ...
Pow10dB == << 1000000, 891251, 794328, 707946, 630957, 562341, 501187,
              446684, 398107, 354813, 316228, 281838, 251189, 223872,
              199526, 177828, 158489, 141254, 125893, 112202 >>
Pow10Tenth == << 1000000, 988553, 977237, 966051, 954993, 944061, 933254,
                 922571, 912011, 901571 >>
Pow10Hundredth == << 1000000, 998849, 997700, 996552, 995405, 994260,
                     993116, 991973, 990832, 989692 >>
Pow10Thousandth == << 1000000, 999885, 999770, 999655, 999540, 999425, 999309, 999194, 999079, 998964 >>

RECURSIVE DivPow10(_, _)
DivPow10(v, k) == IF k = 0 THEN v ELSE DivPow10((v + 5) \div 10, k - 1)

RECURSIVE MulPow10(_, _)
MulPow10(v, k) == IF k = 0 THEN v ELSE MulPow10(v * 10, k - 1)

\* 10^(-m/20000) for a whole number m of thousandths of a dB.
PowNeg(m) ==
    LET r == m % 20000
        v == MulFix(MulFix(Pow10dB[(r \div 1000) + 1],
                           Pow10Tenth[((r % 1000) \div 100) + 1]),
                    MulFix(Pow10Hundredth[((r % 100) \div 10) + 1],
                           Pow10Thousandth[(r % 10) + 1]))
    IN  DivPow10(v, m \div 20000)

\* A rational in thousandths, rounded to the nearest (by long division).
Thousandths(q) ==
    LET a  == Abs(q.n)
        t1 == (a % q.d) * 100
        t2 == (t1 % q.d) * 10
        m  == (a \div q.d) * 1000 + (t1 \div q.d) * 10 + (t2 \div q.d)
              + (IF 2 * (t2 % q.d) >= q.d THEN 1 ELSE 0)
    IN  IF q.n < 0 THEN -m ELSE m

\* pow (10.0, dB / 20.0): the dB value is taken to the nearest 0.001 dB.
DbToLinear(dB) ==
    LET c == Thousandths(dB)
        k == (c + 19999) \div 20000
    IN  IF c <= 0 THEN PowNeg(-c) ELSE MulPow10(PowNeg(20000 * k - c), k)

-----------------------------------------------------------------------------
(* IEEE 754 single precision, for the comparisons of the soft-knee branch. *)
(* A float is [m, k]: the value m / 2^k with 2^23 <= |m| < 2^24, or zero.  *)
(* Magnitudes stay between 2^-7 and 2^7 here (dB values in hundredths), so *)
(* there are neither subnormals nor infinities.                            *)

FloatZero == [m |-> 0, k |-> 0]

\* The bits M has beyond 24.
RECURSIVE ExcessBits(_)
ExcessBits(M) == IF M < 2 ^ 24 THEN 0 ELSE 1 + ExcessBits(M \div 2)

\* (M + fn/fd) / 2^r rounded to the nearest integer, ties to even
\* (M >= 0, 0 <= fn < fd).
RoundHalfEven(M, fn, fd, r) ==
    LET q   == M \div (2 ^ r)
        rem == M % (2 ^ r)
        up  == IF r = 0
               THEN 2 * fn > fd \/ (2 * fn = fd /\ q % 2 = 1)
               ELSE \/ rem > 2 ^ (r - 1)
                    \/ rem = 2 ^ (r - 1) /\ (fn > 0 \/ q % 2 = 1)
    IN  IF up THEN q + 1 ELSE q

\* The mantissa m >= 2^23 of a result counted in units of 2^-k, as a float.
Normal(s, m, k) ==
    IF m = 2 ^ 24 THEN [m |-> s * (2 ^ 23), k |-> k - 1] ELSE [m |-> s * m, k |-> k]

\* The float nearest to s * (M + fn/fd) / 2^k (s = 1 or -1; M >= 2^23, or
\* fn = 0 and the value is exact).
RECURSIVE Rounded(_, _, _, _, _)
Rounded(s, M, fn, fd, k) ==
    IF M = 0 /\ fn = 0 THEN FloatZero
    ELSE IF M < 2 ^ 23 THEN Rounded(s, 2 * M, 0, 1, k + 1)
    ELSE Normal(s, RoundHalfEven(M, fn, fd, ExcessBits(M)), k - ExcessBits(M))

\* The float nearest to (A + fn/fd) / 2^k for A of either sign.
RoundedSigned(A, fn, fd, k) ==
    IF A >= 0 THEN Rounded(1, A, fn, fd, k)
    ELSE IF fn = 0 THEN Rounded(-1, -A, 0, 1, k)
    ELSE Rounded(-1, -A - 1, fd - fn, fd, k)

\* The float nearest to s * a / (d * 2^k), a > 0.
RECURSIVE FloatOf(_, _, _, _)
FloatOf(s, a, d, k) ==
    IF a < (2 ^ 23) * d THEN FloatOf(s, 2 * a, d, k + 1)
    ELSE Rounded(s, a \div d, a % d, d, k)

\* The float a decimal value is held as: the nearest one.
Float(q) == IF q.n = 0 THEN FloatZero ELSE FloatOf(Sign(q.n), Abs(q.n), q.d, 0)

FloatNeg(x)  == [x EXCEPT !.m = -x.m]
\* x / 2.0f
FloatHalf(x) == IF x.m = 0 THEN x ELSE [x EXCEPT !.k = x.k + 1]

\* big + small for big.k <= small.k: the exact sum, counted in units of
\* 2^-small.k when that fits and else in halves of big's last place with
\* the rest as a fraction, rounded to float.
AddAligned(big, small, g) ==
    IF g <= 6 THEN RoundedSigned(big.m * (2 ^ g) + small.m, 0, 1, small.k)
    ELSE IF g > 30 THEN big
    ELSE RoundedSigned(2 * big.m + (small.m \div (2 ^ (g - 1))),
                       small.m % (2 ^ (g - 1)), 2 ^ (g - 1), big.k + 1)

\* x + y in float (x - y is x + (-y)).
FloatAdd(x, y) ==
    IF x.m = 0 THEN y
    ELSE IF y.m = 0 THEN x
    ELSE IF x.k <= y.k THEN AddAligned(x, y, y.k - x.k)
    ELSE AddAligned(y, x, x.k - y.k)

\* x < y
FloatLt(x, y) ==
    IF x.m <= 0 /\ y.m >= 0 THEN x.m # y.m
    ELSE IF x.m >= 0 /\ y.m <= 0 THEN FALSE
    ELSE IF x.m > 0 THEN x.k > y.k \/ (x.k = y.k /\ x.m < y.m)
    ELSE x.k < y.k \/ (x.k = y.k /\ x.m < y.m)

-----------------------------------------------------------------------------
(* The gain computer, PluginProcessor.cpp 192-212.                         *)

\* 2-point Lagrange interpolation through (x[1], y[1]) and (x[2], y[2])
\* evaluated at xbar.
lagrpol(x, y, xbar) ==
    QAdd(QMul(y[1], QDiv(QSub(xbar, x[2]), QSub(x[1], x[2]))),
         QMul(y[2], QDiv(QSub(xbar, x[1]), QSub(x[2], x[1]))))

\* The slope with the "1 -" forgotten.
CompressorSlope_Inverse(fRatio) == QDiv(QInt(1), fRatio)

\* float CS = 1.0f - 1.0f / fRatio;
CompressorSlope(fRatio) == QSub(QInt(1), QDiv(QInt(1), fRatio))

\* fDetectorValue > (fThreshold - fKneeWidth / 2.0f) &&
\* fDetectorValue < fThreshold + fKneeWidth / 2.0f, on floats: both edges
\* are rounded to float before they are compared.
InKneeFloat(fDetectorValue, fThreshold, halfKnee) ==
    /\ FloatLt(FloatAdd(fThreshold, FloatNeg(halfKnee)), fDetectorValue)
    /\ FloatLt(fDetectorValue, FloatAdd(fThreshold, halfKnee))

\* The condition of the soft-knee branch, lines 197-198.
InKnee(fDetectorValue, fThreshold, fKneeWidth) ==
    /\ QLt(QZero, fKneeWidth)
    /\ InKneeFloat(Float(fDetectorValue), Float(fThreshold),
                   FloatHalf(Float(fKneeWidth)))

\* The upper interpolation point without the jmin against 0 dB.
KneeUpperX_NoMin(fThreshold, fKneeWidth) == QAdd(fThreshold, QHalf(fKneeWidth))

\* The body of the soft-knee branch: the interpolated slope.
KneeUpperX(fThreshold, fKneeWidth) ==
    jmin(QZero, QAdd(fThreshold, QHalf(fKneeWidth)))

KneeSlope(fDetectorValue, fThreshold, fRatio, fKneeWidth) ==
    LET x == << QSub(fThreshold, QHalf(fKneeWidth)),
                KneeUpperX(fThreshold, fKneeWidth) >>
        y == << QZero, CompressorSlope(fRatio) >>
    IN  lagrpol(x, y, fDetectorValue)

\* The gain reduction without the clamp at 0 dB.
GainReductionDb_NoClamp(CS, fThreshold, fDetectorValue) ==
    QMul(CS, QSub(fThreshold, fDetectorValue))

\* yG = CS * (fThreshold - fDetectorValue); yG = jmin (0.0f, yG);
GainReductionDb(CS, fThreshold, fDetectorValue) ==
    jmin(QZero, QMul(CS, QSub(fThreshold, fDetectorValue)))

\* The slope with the soft-knee branch left out.
EffectiveSlope_HardOnly(fDetectorValue, fThreshold, fRatio, fKneeWidth) ==
    CompressorSlope(fRatio)

\* The slope calcCompressorGain applies at fDetectorValue.
EffectiveSlope(fDetectorValue, fThreshold, fRatio, fKneeWidth) ==
    IF InKnee(fDetectorValue, fThreshold, fKneeWidth)
    THEN KneeSlope(fDetectorValue, fThreshold, fRatio, fKneeWidth)
    ELSE CompressorSlope(fRatio)

\* The value of yG when calcCompressorGain returns.
calcCompressorGainDb(fDetectorValue, fThreshold, fRatio, fKneeWidth) ==
    GainReductionDb(EffectiveSlope(fDetectorValue, fThreshold, fRatio, fKneeWidth),
                    fThreshold, fDetectorValue)

\* The float calcCompressorGain returns (bLimit is not read by the code).
calcCompressorGain(fDetectorValue, fThreshold, fRatio, fKneeWidth) ==
    DbToLinear(calcCompressorGainDb(fDetectorValue, fThreshold, fRatio, fKneeWidth))

-----------------------------------------------------------------------------
(* The envelope detector, CEnvelopeDetector (EnvelopeDetector.h).          *)

\* Detection mode codes, PluginProcessor.h 78-80.
DETECT_MODE_PEAK == 0
DETECT_MODE_MS   == 1
DETECT_MODE_RMS  == 2

\* Largest r in lo..hi with r * r <= n (lo satisfies it).
RECURSIVE IntSqrt(_, _, _)
IntSqrt(n, lo, hi) ==
    IF lo >= hi THEN lo
    ELSE LET mid == (lo + hi + 1) \div 2
         IN  IF mid * mid <= n THEN IntSqrt(n, mid, hi)
             ELSE IntSqrt(n, lo, mid - 1)

\* sqrt of a fixed-point value (below 20.0), to 4 decimal places.
SqrtFix(v) == IF v <= 0 THEN 0 ELSE 100 * IntSqrt(100 * v, 0, 46340)

\* a / b of two fixed-point values, 0 < a, 0 < b <= LinOne, by long division
\* in base 1000.
DivFix(a, b) ==
    LET t1 == (a % b) * 1000
        t2 == (t1 % b) * 1000
    IN  (a \div b) * 1000000 + (t1 \div b) * 1000 + (t2 \div b)

\* The number of decades v lies above (0.1, 1.0]: v / 10^k is in that range.
RECURSIVE Decade(_)
Decade(v) ==
    IF v > LinOne THEN 1 + Decade((v + 5) \div 10)
    ELSE IF 10 * v <= LinOne THEN Decade(10 * v) - 1
    ELSE 0

\* The last index k of a descending table with table[k] >= w; table[1] is
\* 1.0 and a w above it (by rounding) counts as 1.0.
LastAtLeast(table, w) ==
    CHOOSE k \in 1..Len(table) :
        /\ k = 1 \/ table[k] >= w
        /\ k = Len(table) \/ table[k + 1] < w

\* 20 * log10 (v) for v > 0, in hundredths of a dB, read off digit by digit
\* from the tables of 10^(-k/20), 10^(-k/200) and 10^(-k/2000); the result
\* is the true value rounded up to the next hundredth.
LogHundredths(v) ==
    LET k  == Decade(v)
        w  == IF k >= 0 THEN DivPow10(v, k) ELSE MulPow10(v, -k)
        i1 == LastAtLeast(Pow10dB, w)
        w1 == DivFix(w, Pow10dB[i1])
        i2 == LastAtLeast(Pow10Tenth, w1)
        w2 == DivFix(w1, Pow10Tenth[i2])
        i3 == LastAtLeast(Pow10Hundredth, w2)
    IN  2000 * k - (100 * (i1 - 1) + 10 * (i2 - 1) + (i3 - 1))

\* 20 * log10 (v) to 0.01 dB; zero and below is floored at -96 dB.
LinearToDb(v) ==
    IF v <= 0 THEN QInt(-96) ELSE Q(LogHundredths(v), 100)

\* The decay a time constant stands for, in dB: the digital curve decays to
\* 1 % (20 log10 0.01), the analogue curve to 36.8 % (20 log10 0.368).
TimeConstantDb(bAnalogTC) == IF bAnalogTC THEN Q(-8683, 1000) ELSE QInt(-40)

\* exp (TC / (time_in_ms * sampleRate * 0.001)), the one-pole coefficient.
Coefficient(time_mSec, sampleRate, bAnalogTC) ==
    IF time_mSec.n = 0 \/ sampleRate = 0
    THEN 0    \* exp (log (tc) / 0) = exp (-inf)
    ELSE DbToLinear(QDiv(TimeConstantDb(bAnalogTC),
                         QDiv(QMul(time_mSec, QInt(sampleRate)), QInt(1000))))

\* The safe minimum a non-positive sample rate (Hz) or time constant (ms)
\* is clamped to where the detector is configured.
MinSampleRate == 1
MinTime_mSec  == Q(1, 100)

\* A detector that takes whatever sample rate it is given.
ValidSampleRate_Unchecked(sampleRate) == sampleRate

\* The sample rate and the time constant the detector takes for a given one.
ValidSampleRate(sampleRate) == IF sampleRate > 0 THEN sampleRate ELSE MinSampleRate
ValidTime(time_in_ms) == IF QLt(QZero, time_in_ms) THEN time_in_ms ELSE MinTime_mSec

\* init (sampleRate, attackMs, releaseMs, analogueMode, detectMode, logDomain)
init(det, sampleRate, attack_in_ms, release_in_ms, bAnalogTC, uDetect, bLogDetector) ==
    [ m_fSampleRate |-> ValidSampleRate(sampleRate),
      m_fAttackTime_mSec |-> ValidTime(attack_in_ms),
      m_fReleaseTime_mSec |-> ValidTime(release_in_ms), m_bAnalogTC |-> bAnalogTC,
      m_uDetectMode |-> uDetect, m_bLogDetector |-> bLogDetector,
      m_fEnvelope |-> 0 ]

setAttackTime(det, attack_in_ms) ==
    [det EXCEPT !.m_fAttackTime_mSec = ValidTime(attack_in_ms)]
setReleaseTime(det, release_in_ms) ==
    [det EXCEPT !.m_fReleaseTime_mSec = ValidTime(release_in_ms)]
setTCModeAnalog(det, bAnalogTC)    == [det EXCEPT !.m_bAnalogTC = bAnalogTC]
setDetectMode(det, uDetect)        == [det EXCEPT !.m_uDetectMode = uDetect]

\* The running envelope after one sample.
NextEnvelope(det, fInput) ==
    LET x == IF det.m_uDetectMode = DETECT_MODE_PEAK
             THEN Abs(fInput) ELSE MulFix(fInput, fInput)
        c == IF x > det.m_fEnvelope
             THEN Coefficient(det.m_fAttackTime_mSec, det.m_fSampleRate, det.m_bAnalogTC)
             ELSE Coefficient(det.m_fReleaseTime_mSec, det.m_fSampleRate, det.m_bAnalogTC)
    IN  MulFix(c, det.m_fEnvelope - x) + x

\* The level detect returns for an envelope: dB in the log domain, else the
\* linear value; either is resolved to a hundredth.
DetectedLevel(det, fEnvelope) ==
    LET e == IF det.m_uDetectMode = DETECT_MODE_RMS THEN SqrtFix(fEnvelope)
             ELSE fEnvelope
    IN  IF det.m_bLogDetector THEN LinearToDb(e)
        ELSE Q((e + (LinOne \div 200)) \div (LinOne \div 100), 100)

\* detect (fInput): the detector afterwards and the level returned.
detect(det, fInput) ==
    LET e == NextEnvelope(det, fInput)
    IN  [ det |-> [det EXCEPT !.m_fEnvelope = e], level |-> DetectedLevel(det, e) ]

-----------------------------------------------------------------------------
(* State.                                                                  *)

VARIABLES
    DetGain,          \* float DetGain: input gain, linear (fixed point)
    Threshold,        \* float Threshold: dB
    AttackTime,       \* float AttackTime: ms
    ReleaseTime,      \* float ReleaseTime: ms
    Ratio,            \* float Ratio
    OutputGain,       \* float OutputGain: linear (fixed point)
    KneeWidth,        \* float KneeWidth: dB
    DigitalAnalogue,  \* bool DigitalAnalogue
    GainReduction,    \* float GainReduction: dB
    m_LeftDetector,   \* CEnvelopeDetector m_LeftDetector
    m_RightDetector,  \* CEnvelopeDetector m_RightDetector
    prepared,         \* a prepareToPlay call of the host has returned
    host,             \* the prepareToPlay call the host is in, if any
    editor,           \* the editor's widgets, or NoEditor
    audio,            \* the processBlock call in flight, or the last one finished
    lastOp,           \* the operation that produced this state
    nControl,         \* control operations performed (bounded)
    nBlocks,          \* processBlock calls performed (bounded)
    gainArgs,         \* arguments of a calcCompressorGain call
    gainOut           \* what that call returned, or NoResult

procVars   == << DetGain, Threshold, AttackTime, ReleaseTime, Ratio, OutputGain,
                 KneeWidth, DigitalAnalogue, GainReduction >>
pluginVars == << procVars, m_LeftDetector, m_RightDetector, prepared, host, editor,
                 audio, lastOp, nControl, nBlocks >>
gainVars   == << gainArgs, gainOut >>
vars       == << pluginVars, gainVars >>

NoEditor == [open |-> FALSE]
NoHostCall == [pc |-> "idle", calls |-> 0]
NoResult == [returned |-> FALSE]
NoAudio  == [in |-> << >>, out |-> << >>, levels |-> << >>, used |-> << >>,
             pc |-> "idle"]

\* A default-constructed detector: nothing is configured before init.
NewDetector ==
    [ m_fSampleRate |-> 0, m_fAttackTime_mSec |-> QZero,
      m_fReleaseTime_mSec |-> QZero, m_bAnalogTC |-> FALSE,
      m_uDetectMode |-> 0, m_bLogDetector |-> FALSE, m_fEnvelope |-> 0 ]

\* The member initialisers of PluginProcessor.h 59-75.
InitPlugin ==
    /\ DetGain = LinOne
    /\ Threshold = QInt(0)
    /\ AttackTime = QInt(10)
    /\ ReleaseTime = QInt(200)
    /\ Ratio = QInt(4)
    /\ OutputGain = LinOne
    /\ KneeWidth = QInt(0)
    /\ DigitalAnalogue = FALSE
    /\ GainReduction = QZero
    /\ m_LeftDetector = NewDetector
    /\ m_RightDetector = NewDetector
    /\ prepared = FALSE
    /\ host = NoHostCall
    /\ editor = NoEditor
    /\ audio = NoAudio
    /\ lastOp = "construct"
    /\ nControl = 0
    /\ nBlocks = 0

-----------------------------------------------------------------------------
(* Bounds of the plug-in model.                                            *)

\* Control operations (editor callbacks, editor open/close) per behaviour.
MaxControl == 3
\* processBlock calls per behaviour.
MaxBlocks == 1
\* Samples per channel in a buffer.
MaxBlockLen == 1
\* prepareToPlay calls per behaviour.
MaxPrepare == 1

\* Sample rates the host passes to prepareToPlay.
SampleRates == {44100, 48000}
\* Sample values of an input buffer: silence and a full-scale sample.
Samples == {0, -LinOne}
\* Buffers: one or two channels of the same length 1..MaxBlockLen.
Buffers ==
    UNION { [1..c -> [1..n -> Samples]] : c \in {1, 2}, n \in 1..MaxBlockLen }

-----------------------------------------------------------------------------
(* prepareToPlay, PluginProcessor.cpp 96-110.                              *)

\* The detectors initialised in the linear domain.
logDetect_Off == FALSE

\* const bool logDetect = true;
logDetect == TRUE
\* const UINT detectMode = DETECT_MODE_RMS;
detectMode == DETECT_MODE_RMS

\* The host is inside prepareToPlay.
InPrepare == host.pc # "idle"

\* The arguments of an init call that are loaded from fields the message
\* thread writes, before any of them is loaded.
InitArguments == { "AttackTime", "ReleaseTime" }
NotLoaded == [ AttackTime |-> QZero, ReleaseTime |-> QZero ]

\* The call as prepareToPlay is entered with sampleRate: the time-constant
\* mode is read into analogueTC and the arguments of the left detector's
\* init call are next.
Entered(sampleRate) ==
    [ pc |-> "left", calls |-> host.calls + 1, sampleRate |-> sampleRate,
      analogueTC |-> DigitalAnalogue, toRead |-> InitArguments,
      args |-> NotLoaded ]

\* prepareToPlay setting the attack time back to its default first.
prepareToPlay_ResetAttack(sampleRate) ==
    /\ ~InPrepare
    /\ host.calls < MaxPrepare
    /\ AttackTime' = QInt(10)
    /\ host' = Entered(sampleRate)
    /\ lastOp' = "prepareToPlay"
    /\ UNCHANGED << DetGain, Threshold, ReleaseTime, Ratio, OutputGain, KneeWidth,
                    DigitalAnalogue, GainReduction, m_LeftDetector, m_RightDetector,
                    prepared, editor, audio, nControl, nBlocks, gainVars >>

\* prepareToPlay (sampleRate, samplesPerBlock) is entered, lines 96-105:
\* const bool analogueTC = DigitalAnalogue.  The init calls follow; the
\* message thread may run before each of their steps.
prepareToPlay(sampleRate) ==
    /\ ~InPrepare
    /\ host.calls < MaxPrepare
    /\ host' = Entered(sampleRate)
    /\ lastOp' = "prepareToPlay"
    /\ UNCHANGED << procVars, m_LeftDetector, m_RightDetector, prepared, editor,
                    audio, nControl, nBlocks, gainVars >>

\* The field an argument of an init call is loaded from.
TimeField(field) == IF field = "AttackTime" THEN AttackTime ELSE ReleaseTime

\* One of the arguments AttackTime and ReleaseTime of an init call, lines
\* 106-107 and 108-109, is loaded from its field (the arguments of a call
\* are evaluated in no fixed order); init is called when both are.
readInitArgument(field) ==
    /\ InPrepare
    /\ field \in host.toRead
    /\ host' = [host EXCEPT !.args[field] = TimeField(field),
                            !.toRead = @ \ { field }]
    /\ lastOp' = "readInitArgument"
    /\ UNCHANGED << procVars, m_LeftDetector, m_RightDetector, prepared, editor,
                    audio, nControl, nBlocks, gainVars >>

\* m_LeftDetector.init (sampleRate, AttackTime, ReleaseTime, analogueTC,
\* detectMode, logDetect), lines 106-107: init runs with the arguments
\* loaded.  The arguments of the right detector's call are next.
initLeftDetector ==
    /\ host.pc = "left"
    /\ host.toRead = {}
    /\ m_LeftDetector' = init(m_LeftDetector, host.sampleRate, host.args.AttackTime,
                              host.args.ReleaseTime, host.analogueTC, detectMode,
                              logDetect)
    /\ host' = [host EXCEPT !.pc = "right", !.toRead = InitArguments,
                            !.args = NotLoaded]
    /\ lastOp' = "initLeftDetector"
    /\ UNCHANGED << procVars, m_RightDetector, prepared, editor, audio, nControl,
                    nBlocks, gainVars >>

\* m_RightDetector.init (...), lines 108-109, and prepareToPlay returns.
\* The sample rate of the call stays on record.
initRightDetector ==
    /\ host.pc = "right"
    /\ host.toRead = {}
    /\ m_RightDetector' = init(m_RightDetector, host.sampleRate,
                               host.args.AttackTime, host.args.ReleaseTime,
                               host.analogueTC, detectMode, logDetect)
    /\ host' = [ pc |-> "idle", calls |-> host.calls,
                 sampleRate |-> host.sampleRate ]
    /\ prepared' = TRUE
    /\ lastOp' = "initRightDetector"
    /\ UNCHANGED << procVars, m_LeftDetector, editor, audio, nControl, nBlocks,
                    gainVars >>

-----------------------------------------------------------------------------
(* processBlock, PluginProcessor.cpp 139-165.                              *)
(*                                                                         *)
(* processBlock runs on the audio thread while the editor's callbacks run  *)
(* on the message thread; nothing locks one out of the other.  The call is *)
(* therefore a sequence of steps, one for each access to state the message *)
(* thread touches: the read of DetGain in line 156, the detect call of     *)
(* line 158, the reads of Threshold, Ratio and KneeWidth in line 160 (the  *)
(* arguments of a call are evaluated in no fixed order) and the read of    *)
(* OutputGain in line 162.  Each read loads the field as it is in memory   *)
(* when the line runs.                                                     *)
(*                                                                         *)
(* audio holds the call: in is the buffer as passed; out, levels and used  *)
(* are the samples written back, the levels detected and the parameter     *)
(* values each sample was computed with, in processing order (channel      *)
(* after channel); held is the parameter fields as they were on entry;     *)
(* regs is what the pass for the current sample has read of them (a field  *)
(* the pass has not read yet stands at its entry value); inSample and fGn  *)
(* are the locals of lines 156 and 160; toRead is the arguments of line    *)
(* 160 not read yet; pc is the line the audio thread is at, or "idle".     *)

\* The parameter fields processBlock reads, as they are in memory.
Memory ==
    [ DetGain |-> DetGain, Threshold |-> Threshold, Ratio |-> Ratio,
      KneeWidth |-> KneeWidth, OutputGain |-> OutputGain ]

\* The channels of a buffer one after the other.
RECURSIVE Flatten(_)
Flatten(buffer) ==
    IF buffer = << >> THEN << >> ELSE Head(buffer) \o Flatten(Tail(buffer))

\* A processBlock call has started and has not returned.
InFlight == audio.pc # "idle"

\* The sample the loops are at, counted in processing order, its value and
\* its channel (the channels of a buffer have the same length).
SampleIndex == Len(audio.out) + 1
SampleValue == Flatten(audio.in)[SampleIndex]
Channel == ((SampleIndex - 1) \div Len(audio.in[1])) + 1

\* A read that returns the field as it was when processBlock was entered.
Read_OnEntry(field) == audio.held[field]

\* What the audio thread gets when it reads the field.
Read(field) == Memory[field]

\* The write-back of line 162 with the make-up gain left out.
WriteBack_NoOutputGain(inSample, fGn, outputGain) == MulFix(fGn, inSample)

\* channelData[sample] = fGn * inSample * OutputGain, line 162.
WriteBack(inSample, fGn, outputGain) == MulFix(MulFix(fGn, inSample), outputGain)

\* One detector per channel: left for the first, right for the second.
UsedDetector_PerChannel(channel) == IF channel = 1 THEN "left" ELSE "right"

\* The detector every channel's samples are fed to, line 158.
UsedDetector(channel) == "left"

\* processBlock is entered, lines 139-152.  The input and output bus have
\* the same channel set (isBusesLayoutSupported, lines 129-131), so the
\* clearing loop of lines 146-147 has nothing to clear.
processBlock(buffer) ==
    /\ ~InFlight
    /\ ~InPrepare
    /\ nBlocks < MaxBlocks
    /\ audio' = [ in |-> buffer, out |-> << >>, levels |-> << >>, used |-> << >>,
                  pc |-> "156", held |-> Memory, regs |-> Memory,
                  inSample |-> 0, fGn |-> 0, toRead |-> {} ]
    /\ nBlocks' = nBlocks + 1
    /\ lastOp' = "processBlock"
    /\ UNCHANGED << procVars, m_LeftDetector, m_RightDetector, prepared, host, editor,
                    nControl, gainVars >>

\* float inSample = channelData[sample] * DetGain, line 156.
applyInputGain ==
    /\ audio.pc = "156"
    /\ audio' = [audio EXCEPT !.regs.DetGain = Read("DetGain"),
                              !.inSample = MulFix(SampleValue, Read("DetGain")),
                              !.pc = "158"]
    /\ lastOp' = "applyInputGain"
    /\ UNCHANGED << procVars, m_LeftDetector, m_RightDetector, prepared, host, editor,
                    nControl, nBlocks, gainVars >>

\* The detector `which` has answered r.
StoreDetected(which, r) ==
    /\ m_LeftDetector' = IF which = "left" THEN r.det ELSE m_LeftDetector
    /\ m_RightDetector' = IF which = "right" THEN r.det ELSE m_RightDetector
    /\ audio' = [audio EXCEPT !.levels = Append(@, r.level),
                              !.toRead = { "Threshold", "Ratio", "KneeWidth" },
                              !.pc = "160"]

\* The detector `which` is called.
DetectWith(which, dets) == StoreDetected(which, detect(dets[which], audio.inSample))

\* float detectorValue = m_LeftDetector.detect (inSample), line 158.
detectLevel ==
    /\ audio.pc = "158"
    /\ DetectWith(UsedDetector(Channel),
                  [left |-> m_LeftDetector, right |-> m_RightDetector])
    /\ lastOp' = "detectLevel"
    /\ UNCHANGED << procVars, prepared, host, editor, nControl, nBlocks, gainVars >>

\* The arguments of line 160 as read so far, with the one read now.
ArgumentsRead(field, value) ==
    /\ audio' = [audio EXCEPT
                   !.regs[field] = value,
                   !.toRead = @ \ { field },
                   !.fGn = IF audio.toRead = { field }
                           THEN calcCompressorGain(
                                    audio.levels[SampleIndex],
                                    IF field = "Threshold" THEN value
                                    ELSE audio.regs.Threshold,
                                    IF field = "Ratio" THEN value
                                    ELSE audio.regs.Ratio,
                                    IF field = "KneeWidth" THEN value
                                    ELSE audio.regs.KneeWidth)
                           ELSE @,
                   !.pc = IF audio.toRead = { field } THEN "162" ELSE @]

\* float fGn = calcCompressorGain (detectorValue, Threshold, Ratio,
\* KneeWidth, false), line 160: one argument is read; the call is made when
\* all are.
readGainArgument(field) ==
    /\ audio.pc = "160"
    /\ field \in audio.toRead
    /\ ArgumentsRead(field, Read(field))
    /\ lastOp' = "readGainArgument"
    /\ UNCHANGED << procVars, m_LeftDetector, m_RightDetector, prepared, host, editor,
                    nControl, nBlocks, gainVars >>

\* The sample is written with the make-up gain read; after the last sample
\* the call returns.
SampleWritten(outputGain) ==
    IF SampleIndex = Len(Flatten(audio.in))
    THEN audio' = [ in |-> audio.in,
                    out |-> Append(audio.out,
                                   WriteBack(audio.inSample, audio.fGn, outputGain)),
                    levels |-> audio.levels,
                    used |-> Append(audio.used,
                                    [audio.regs EXCEPT !.OutputGain = outputGain]),
                    pc |-> "idle" ]
    ELSE audio' = [audio EXCEPT
                     !.out = Append(@, WriteBack(audio.inSample, audio.fGn,
                                                 outputGain)),
                     !.used = Append(@, [audio.regs EXCEPT
                                            !.OutputGain = outputGain]),
                     !.regs = audio.held,
                     !.inSample = 0,
                     !.fGn = 0,
                     !.pc = "156"]

\* channelData[sample] = fGn * inSample * OutputGain, line 162, and the
\* loops' increments.
writeOutput ==
    /\ audio.pc = "162"
    /\ SampleWritten(Read("OutputGain"))
    /\ lastOp' = "writeOutput"
    /\ UNCHANGED << procVars, m_LeftDetector, m_RightDetector, prepared, host, editor,
                    nControl, nBlocks, gainVars >>

-----------------------------------------------------------------------------
(* The editor, PluginEditor.cpp.                                           *)

SliderNames == << "detGain", "threshold", "attackTime", "releaseTime",
                  "ratio", "outputGain", "kneeWidth" >>

\* The setRange calls of the constructor, lines 126-178 (interval 0.01).
SliderRange(name) ==
    CASE name = "detGain"     -> [min |-> QInt(-12),  max |-> QInt(12)]
      [] name = "threshold"   -> [min |-> QInt(-60),  max |-> QInt(0)]
      [] name = "attackTime"  -> [min |-> Q(2, 100),  max |-> QInt(300)]
      [] name = "releaseTime" -> [min |-> QInt(10),   max |-> QInt(5000)]
      [] name = "ratio"       -> [min |-> QInt(1),    max |-> QInt(20)]
      [] name = "outputGain"  -> [min |-> QInt(0),    max |-> QInt(40)]
      [] name = "kneeWidth"   -> [min |-> QInt(0),    max |-> QInt(20)]

\* Slider's constrained value: snapped to the interval of 0.01 counted from
\* the range's start, then clamped to the range.
Constrain(range, v) ==
    LET steps   == RoundQ(QMul(QSub(v, range.min), QInt(100)))
        snapped == QAdd(range.min, Q(steps, 100))
    IN  IF QLe(snapped, range.min) THEN range.min
        ELSE IF QLe(range.max, snapped) THEN range.max
        ELSE snapped

\* The processor field each slider is initialised from (setValue (p.X)),
\* as the number it holds.
ProcessorValue(name) ==
    CASE name = "detGain"     -> Q(DetGain, LinOne)
      [] name = "threshold"   -> Threshold
      [] name = "attackTime"  -> AttackTime
      [] name = "releaseTime" -> ReleaseTime
      [] name = "ratio"       -> Ratio
      [] name = "outputGain"  -> Q(OutputGain, LinOne)
      [] name = "kneeWidth"   -> KneeWidth

\* A new Slider holds 0; setRange constrains that value silently.
ValueAfterSetRange(name) == Constrain(SliderRange(name), QZero)
\* setValue (p.X) constrains the processor's value.
ValueAfterSetValue(name) == Constrain(SliderRange(name), ProcessorValue(name))

\* setValue notifies the listeners asynchronously when the value changed:
\* the sliders with a change message posted by the constructor, in order.
RECURSIVE PostedChanges(_)
PostedChanges(i) ==
    IF i > Len(SliderNames) THEN << >>
    ELSE (IF ValueAfterSetValue(SliderNames[i]) # ValueAfterSetRange(SliderNames[i])
          THEN << SliderNames[i] >> ELSE << >>) \o PostedChanges(i + 1)

\* The message thread is in no callback.
NoCall == [pc |-> "idle"]

\* The message thread is inside a callback of the editor, between two of
\* its writes to the processor.
InCallback == editor.open /\ editor.call.pc # "idle"

\* The constructor, lines 110-261 (reached through createEditor,
\* PluginProcessor.cpp 173-176).
createEditor ==
    /\ ~editor.open
    /\ nControl < MaxControl
    /\ editor' = [ open    |-> TRUE,
                   slider  |-> [ i \in 1..Len(SliderNames) |->
                                   ValueAfterSetValue(SliderNames[i]) ],
                   pending |-> PostedChanges(1),
                   digitalAnalogButton |-> DigitalAnalogue,
                   detectModeCombo |-> 3,
                   level |-> QZero,
                   call |-> NoCall ]
    /\ nControl' = nControl + 1
    /\ lastOp' = "createEditor"
    /\ UNCHANGED << procVars, m_LeftDetector, m_RightDetector, prepared, host, audio,
                    nBlocks, gainVars >>

\* The destructor, lines 263-280: the widgets and their pending change
\* messages go away.
deleteEditor ==
    /\ editor.open
    /\ ~InCallback
    /\ nControl < MaxControl
    /\ editor' = NoEditor
    /\ nControl' = nControl + 1
    /\ lastOp' = "deleteEditor"
    /\ UNCHANGED << procVars, m_LeftDetector, m_RightDetector, prepared, host, audio,
                    nBlocks, gainVars >>

SliderIndex(name) == CHOOSE i \in 1..Len(SliderNames) : SliderNames[i] = name

\* sliderValueChanged, lines 335-371, for the slider `name` holding `value`:
\* the assignment to the processor's field, the first statement of each
\* branch (lines 341, 345, 349, 355, 361, 365, 369).
sliderValueChanged(name, value) ==
    /\ DetGain' = IF name = "detGain" THEN DbToLinear(value) ELSE DetGain
    /\ Threshold' = IF name = "threshold" THEN value ELSE Threshold
    /\ AttackTime' = IF name = "attackTime" THEN value ELSE AttackTime
    /\ ReleaseTime' = IF name = "releaseTime" THEN value ELSE ReleaseTime
    /\ Ratio' = IF name = "ratio" THEN value ELSE Ratio
    /\ OutputGain' = IF name = "outputGain" THEN DbToLinear(value) ELSE OutputGain
    /\ KneeWidth' = IF name = "kneeWidth" THEN value ELSE KneeWidth
    /\ UNCHANGED << DigitalAnalogue, GainReduction, m_LeftDetector, m_RightDetector >>

\* What is left of sliderValueChanged after the assignment: the two setter
\* calls of lines 350-351 or 356-357, or nothing.
CallAfterAssignment(name) ==
    IF name = "attackTime" THEN [pc |-> "left", setter |-> "setAttackTime"]
    ELSE IF name = "releaseTime" THEN [pc |-> "left", setter |-> "setReleaseTime"]
    ELSE NoCall

\* The change message a setValue of the constructor posted is delivered: the
\* listener is called with the slider's value.
handleAsyncUpdate ==
    /\ editor.open
    /\ ~InCallback
    /\ editor.pending # << >>
    /\ LET name == Head(editor.pending)
       IN  /\ sliderValueChanged(name, editor.slider[SliderIndex(name)])
           /\ editor' = [editor EXCEPT !.pending = Tail(@),
                                       !.call = CallAfterAssignment(name)]
    /\ lastOp' = "handleAsyncUpdate"
    /\ UNCHANGED << prepared, host, audio, nControl, nBlocks, gainVars >>

\* The values the user asks each slider for, by dragging or by typing into
\* its text box; a typed value may lie outside the range.
UserValues(name) ==
    CASE name = "detGain"     -> { QInt(6) }
      [] name = "threshold"   -> { QInt(-40) }
      [] name = "attackTime"  -> { QInt(0), QInt(1) }
      [] name = "releaseTime" -> { QInt(0) }
      [] name = "ratio"       -> { QInt(0), QInt(25) }
      [] name = "outputGain"  -> { QInt(6) }
      [] name = "kneeWidth"   -> { QInt(10), QInt(25) }

\* A slider that takes any requested value as it is.
Constrained_None(name, v) == v

\* The value the slider takes for a requested one.
Constrained(name, v) == Constrain(SliderRange(name), v)

\* The user moves a slider: the value changes and the listener is called.
\* User input is dispatched after the change messages posted before it.
moveSlider(name, value) ==
    /\ editor.open
    /\ ~InCallback
    /\ editor.pending = << >>
    /\ nControl < MaxControl
    /\ value # editor.slider[SliderIndex(name)]
    /\ editor' = [editor EXCEPT !.slider[SliderIndex(name)] = value,
                                !.call = CallAfterAssignment(name)]
    /\ sliderValueChanged(name, value)
    /\ nControl' = nControl + 1
    /\ lastOp' = "moveSlider"
    /\ UNCHANGED << prepared, host, audio, nBlocks, gainVars >>

\* The toggle handled by initialising the detectors anew with the new mode.
buttonClicked_Reinit ==
    /\ editor.open
    /\ ~InCallback
    /\ editor.pending = << >>
    /\ nControl < MaxControl
    /\ LET analogue == ~editor.digitalAnalogButton
       IN  /\ editor' = [editor EXCEPT
                            !.digitalAnalogButton = analogue,
                            !.call = [pc |-> "left", setter |-> "setTCModeAnalog",
                                      arg |-> analogue]]
           /\ DigitalAnalogue' = analogue
           /\ m_LeftDetector' = init(m_LeftDetector, m_LeftDetector.m_fSampleRate,
                                     AttackTime, ReleaseTime, analogue,
                                     m_LeftDetector.m_uDetectMode, TRUE)
           /\ m_RightDetector' = init(m_RightDetector, m_RightDetector.m_fSampleRate,
                                      AttackTime, ReleaseTime, analogue,
                                      m_RightDetector.m_uDetectMode, TRUE)
    /\ nControl' = nControl + 1
    /\ lastOp' = "buttonClicked"
    /\ UNCHANGED << DetGain, Threshold, AttackTime, ReleaseTime, Ratio,
                    OutputGain, KneeWidth, GainReduction, prepared, host, audio,
                    nBlocks, gainVars >>

\* buttonClicked for digitalAnalogButton, lines 378-381: the click toggled
\* the button; processor.DigitalAnalogue = analogue.  The setter calls of
\* lines 382-383 follow.
buttonClicked ==
    /\ editor.open
    /\ ~InCallback
    /\ editor.pending = << >>
    /\ nControl < MaxControl
    /\ LET analogue == ~editor.digitalAnalogButton
       IN  /\ editor' = [editor EXCEPT
                            !.digitalAnalogButton = analogue,
                            !.call = [pc |-> "left", setter |-> "setTCModeAnalog",
                                      arg |-> analogue]]
           /\ DigitalAnalogue' = analogue
    /\ nControl' = nControl + 1
    /\ lastOp' = "buttonClicked"
    /\ UNCHANGED << DetGain, Threshold, AttackTime, ReleaseTime, Ratio,
                    OutputGain, KneeWidth, GainReduction, m_LeftDetector,
                    m_RightDetector, prepared, host, audio, nBlocks, gainVars >>

\* juce::jlimit (lo, hi, v)
jlimit(lo, hi, v) == IF v < lo THEN lo ELSE IF hi < v THEN hi ELSE v

\* comboBoxChanged, lines 452-459, after the user selected item `id`: up to
\* and with the left detector's setDetectMode.  The right detector's call
\* of line 460 follows.
comboBoxChanged(id) ==
    /\ editor.open
    /\ ~InCallback
    /\ editor.pending = << >>
    /\ nControl < MaxControl
    /\ id # editor.detectModeCombo
    /\ LET mode == jlimit(0, 2, id - 1)
       IN  /\ editor' = [editor EXCEPT
                            !.detectModeCombo = id,
                            !.call = [pc |-> "right", setter |-> "setDetectMode",
                                      arg |-> mode]]
           /\ m_LeftDetector' = setDetectMode(m_LeftDetector, mode)
    /\ nControl' = nControl + 1
    /\ lastOp' = "comboBoxChanged"
    /\ UNCHANGED << procVars, m_RightDetector, prepared, host, audio, nBlocks, gainVars >>

\* The setter call the message thread is at, made on the detector det.  The
\* time-constant setters are passed the processor's field as it then is
\* (setAttackTime (processor.AttackTime)), the other two a local.
CallSetter(call, det) ==
    CASE call.setter = "setAttackTime"   -> setAttackTime(det, AttackTime)
      [] call.setter = "setReleaseTime"  -> setReleaseTime(det, ReleaseTime)
      [] call.setter = "setTCModeAnalog" -> setTCModeAnalog(det, call.arg)
      [] call.setter = "setDetectMode"   -> setDetectMode(det, call.arg)

\* processor.m_LeftDetector.setX (...), lines 350, 356 and 382.
callLeftSetter ==
    /\ InCallback
    /\ editor.call.pc = "left"
    /\ m_LeftDetector' = CallSetter(editor.call, m_LeftDetector)
    /\ editor' = [editor EXCEPT !.call.pc = "right"]
    /\ lastOp' = "callLeftSetter"
    /\ UNCHANGED << procVars, m_RightDetector, prepared, host, audio, nControl, nBlocks,
                    gainVars >>

\* processor.m_RightDetector.setX (...), lines 351, 357, 383 and 460; the
\* callback returns.
callRightSetter ==
    /\ InCallback
    /\ editor.call.pc = "right"
    /\ m_RightDetector' = CallSetter(editor.call, m_RightDetector)
    /\ editor' = [editor EXCEPT !.call = NoCall]
    /\ lastOp' = "callRightSetter"
    /\ UNCHANGED << procVars, m_LeftDetector, prepared, host, audio, nControl, nBlocks,
                    gainVars >>

\* GainReductionMeter::timerCallback, lines 95-100, on the message thread.
timerCallback ==
    /\ editor.open
    /\ ~InCallback
    /\ editor' = [editor EXCEPT !.level = GainReduction]
    /\ lastOp' = "timerCallback"
    /\ UNCHANGED << procVars, m_LeftDetector, m_RightDetector, prepared, host, audio,
                    nControl, nBlocks, gainVars >>

-----------------------------------------------------------------------------
(* The plug-in: host, audio callback and editor.                           *)

Init ==
    /\ InitPlugin
    /\ gainArgs = [d |-> QZero, T |-> QZero, R |-> QInt(1), K |-> QZero]
    /\ gainOut = NoResult

\* The host calls prepareToPlay before a stream of processBlock calls or
\* between two of them, never while one runs, and no processBlock while
\* prepareToPlay runs.  The message thread runs one
\* callback at a time; its writes, the lines of processBlock and the init
\* calls of prepareToPlay interleave freely.
Next ==
    \/ \E sampleRate \in SampleRates : ~InFlight /\ prepareToPlay(sampleRate)
    \/ \E field \in InitArguments : readInitArgument(field)
    \/ initLeftDetector
    \/ initRightDetector
    \/ \E buffer \in Buffers : processBlock(buffer)
    \/ applyInputGain
    \/ detectLevel
    \/ \E field \in { "Threshold", "Ratio", "KneeWidth" } : readGainArgument(field)
    \/ writeOutput
    \/ createEditor
    \/ deleteEditor
    \/ handleAsyncUpdate
    \/ \E i \in 1..Len(SliderNames) :
          \E value \in UserValues(SliderNames[i]) :
             moveSlider(SliderNames[i], Constrained(SliderNames[i], value))
    \/ buttonClicked
    \/ \E id \in 1..3 : comboBoxChanged(id)
    \/ callLeftSetter
    \/ callRightSetter
    \/ timerCallback

Spec == Init /\ [][Next]_vars

-----------------------------------------------------------------------------
(* The gain computer applied to arguments drawn from bounded sets.         *)

\* Detected levels: -96 dB to +24 dB in steps of 0.5 dB.
GainLevels     == { Q(i, 2) : i \in (-192)..48 }
\* Thresholds: values of the slider's range [-60, 0] and one above it.
GainThresholds == { QInt(t) : t \in {-60, -40, -20, -10, -5, -1, 0, 6} }
\* Ratios of the slider's range [1, 20].
GainRatios     == { QInt(1), Q(3, 2), QInt(2), QInt(4), QInt(10), QInt(20) }
\* Knee widths of the slider's range [0, 20].
GainKnees      == { QInt(k) : k \in {0, 1, 5, 10, 20} }

InitGain ==
    /\ InitPlugin
    /\ gainArgs \in [ d : GainLevels, T : GainThresholds,
                      R : GainRatios, K : GainKnees ]
    /\ gainOut = NoResult

CallCalcCompressorGain ==
    /\ ~gainOut.returned
    /\ gainOut' = [ returned |-> TRUE,
                    dB  |-> calcCompressorGainDb(gainArgs.d, gainArgs.T,
                                                 gainArgs.R, gainArgs.K),
                    lin |-> calcCompressorGain(gainArgs.d, gainArgs.T,
                                               gainArgs.R, gainArgs.K) ]
    /\ UNCHANGED << pluginVars, gainArgs >>

NextGain == CallCalcCompressorGain

SpecGain == InitGain /\ [][NextGain]_vars

-----------------------------------------------------------------------------
(* Claims about the gain computer, checked under SpecGain.                 *)

InSurface(a) ==
    /\ QLe(QInt(-60), a.T) /\ QLe(a.T, QZero)
    /\ QLe(QInt(1), a.R)   /\ QLe(a.R, QInt(20))
    /\ QLe(QZero, a.K)     /\ QLe(a.K, QInt(20))

\* (1 - 1/ratio) * (threshold - detectedLevel), clamped at 0, as the claims
\* state it.
StatedReductionDb(slope, a) ==
    LET g == QMul(slope, QSub(a.T, a.d))
    IN  IF QLt(g, QZero) THEN g ELSE QZero

StatedSlope(a) == QSub(QInt(1), QDiv(QInt(1), a.R))

\* C1: with knee width 0, ratio >= 1 and a detected level strictly above the
\* threshold, calcCompressorGain returns 10^(G/20) with
\* G = min(0, (1 - 1/ratio) * (threshold - detectedLevel)); for threshold -20,
\* ratio 4, knee 0, level -10 that is G = -7.5 dB and a gain of about 0.4217.
C1_HardKneeAboveThreshold ==
    gainOut.returned =>
        /\ (gainArgs.K = QZero /\ QLe(QInt(1), gainArgs.R)
                /\ QLt(gainArgs.T, gainArgs.d))
            => /\ gainOut.dB = StatedReductionDb(StatedSlope(gainArgs), gainArgs)
               /\ gainOut.lin = DbToLinear(StatedReductionDb(StatedSlope(gainArgs),
                                                             gainArgs))
        /\ gainArgs = [d |-> QInt(-10), T |-> QInt(-20), R |-> QInt(4), K |-> QZero]
            => /\ gainOut.dB = Q(-15, 2)
               /\ gainOut.lin >= 421650 /\ gainOut.lin <= 421750

C1_Witness ==
    /\ gainOut.returned
    /\ gainArgs = [d |-> QInt(-10), T |-> QInt(-20), R |-> QInt(4), K |-> QZero]
    /\ gainOut.lin = 421697

\* C2: for ratio >= 1, knee width >= 0, threshold in [-60, 0] and a detected
\* level strictly below the threshold (also inside the lower half of the
\* knee), calcCompressorGain returns exactly 1.0: 0 dB of gain reduction.
C2_UnityBelowThreshold ==
    (/\ gainOut.returned
     /\ QLe(QInt(1), gainArgs.R) /\ QLe(QZero, gainArgs.K)
     /\ QLe(QInt(-60), gainArgs.T) /\ QLe(gainArgs.T, QZero)
     /\ QLt(gainArgs.d, gainArgs.T))
        => gainOut.dB = QZero /\ gainOut.lin = LinOne

C2_Witness ==
    /\ gainOut.returned
    /\ QLt(QInt(1), gainArgs.R)
    /\ QLe(QInt(-60), gainArgs.T) /\ QLe(gainArgs.T, QZero)
    /\ QLt(gainArgs.d, gainArgs.T)
    /\ InKnee(gainArgs.d, gainArgs.T, gainArgs.K)
    /\ gainOut.lin = LinOne

\* C3: for threshold in [-60, 0], knee width in (0, 20] and ratio >= 1 the
\* soft-knee formula (interpolated slope) and the hard-knee formula (slope
\* CS) give the same gain reduction in dB at detectedLevel = threshold -
\* knee/2 and at detectedLevel = threshold + knee/2.
C3_KneeBoundaryContinuity ==
    (/\ gainOut.returned
     /\ QLe(QInt(-60), gainArgs.T) /\ QLe(gainArgs.T, QZero)
     /\ QLt(QZero, gainArgs.K) /\ QLe(gainArgs.K, QInt(20))
     /\ QLe(QInt(1), gainArgs.R)
     /\ gainArgs.d \in { QSub(gainArgs.T, QHalf(gainArgs.K)),
                         QAdd(gainArgs.T, QHalf(gainArgs.K)) })
        => GainReductionDb(KneeSlope(gainArgs.d, gainArgs.T, gainArgs.R, gainArgs.K),
                           gainArgs.T, gainArgs.d)
           = GainReductionDb(CompressorSlope(gainArgs.R), gainArgs.T, gainArgs.d)

\* C4: for every detected level and every threshold in [-60, 0], ratio in
\* [1, 20] and knee width in [0, 20], calcCompressorGain returns a gain whose
\* dB value is <= 0 and whose linear value lies in (0, 1]; ratio = 1,
\* knee = 0, threshold = 0 included.
C4_GainInUnitInterval ==
    (gainOut.returned /\ InSurface(gainArgs))
        => /\ QLe(gainOut.dB, QZero)
           /\ 0 < gainOut.lin /\ gainOut.lin <= LinOne

C4_Witness ==
    /\ gainOut.returned
    /\ gainArgs.R = QInt(1) /\ gainArgs.K = QZero /\ gainArgs.T = QZero
    /\ QLt(gainArgs.T, gainArgs.d)
    /\ gainOut.lin = LinOne

\* C5: strictly inside the knee region (knee > 0) the slope is the value at
\* detectedLevel of the straight line through (threshold - knee/2, 0) and
\* (min(0, threshold + knee/2), CS), and the result is 10^(G/20) with
\* G = min(0, slope * (threshold - detectedLevel)); outside the region, or
\* with knee = 0, the slope CS is used unchanged.
StatedKneeLine(a) ==
    LET x0 == QSub(a.T, QHalf(a.K))
        hi == QAdd(a.T, QHalf(a.K))
        x1 == IF QLt(hi, QZero) THEN hi ELSE QZero
    IN  QMul(StatedSlope(a), QDiv(QSub(a.d, x0), QSub(x1, x0)))

StatedInsideKnee(a) ==
    /\ QLt(QZero, a.K)
    /\ QLt(QSub(a.T, QHalf(a.K)), a.d)
    /\ QLt(a.d, QAdd(a.T, QHalf(a.K)))

C5_SoftKneeInterpolation ==
    gainOut.returned =>
        LET slope == IF StatedInsideKnee(gainArgs) THEN StatedKneeLine(gainArgs)
                     ELSE StatedSlope(gainArgs)
        IN  /\ gainOut.dB = StatedReductionDb(slope, gainArgs)
            /\ gainOut.lin = DbToLinear(StatedReductionDb(slope, gainArgs))

C5_Witness ==
    /\ gainOut.returned
    /\ StatedInsideKnee(gainArgs)
    /\ QLt(QZero, QAdd(gainArgs.T, QHalf(gainArgs.K)))
    /\ QLt(gainArgs.T, gainArgs.d)
    /\ QLt(QInt(1), gainArgs.R)
    /\ gainOut.lin < LinOne

\* C6: with ratio = 1 calcCompressorGain returns 1.0 for every detected
\* level, every threshold in [-60, 0] and every knee width in [0, 20],
\* inside the knee region or not.
C6_RatioOneIsUnity ==
    (gainOut.returned /\ gainArgs.R = QInt(1) /\ InSurface(gainArgs))
        => gainOut.dB = QZero /\ gainOut.lin = LinOne

C6_Witness ==
    /\ gainOut.returned
    /\ gainArgs.R = QInt(1)
    /\ InSurface(gainArgs)
    /\ StatedInsideKnee(gainArgs)
    /\ QLt(gainArgs.T, gainArgs.d)
    /\ gainOut.lin = LinOne

-----------------------------------------------------------------------------
(* Configuration only: the host may hand prepareToPlay any sample rate,    *)
(* lines 96-110 take it as it comes.                                        *)

HostSampleRates == SampleRates \cup { 0, -48000 }

NextConfig ==
    \/ \E sampleRate \in HostSampleRates : prepareToPlay(sampleRate)
    \/ \E field \in InitArguments : readInitArgument(field)
    \/ initLeftDetector
    \/ initRightDetector
    \/ createEditor
    \/ deleteEditor
    \/ handleAsyncUpdate
    \/ \E i \in 1..Len(SliderNames) :
          \E value \in UserValues(SliderNames[i]) :
             moveSlider(SliderNames[i], Constrained(SliderNames[i], value))
    \/ buttonClicked
    \/ \E id \in 1..3 : comboBoxChanged(id)
    \/ callLeftSetter
    \/ callRightSetter

SpecConfig == Init /\ [][NextConfig]_vars

-----------------------------------------------------------------------------
(* Claims about the plug-in, checked under Spec.                           *)

\* The sample of the block in flight that was written last, its detected
\* level and the parameter values it was computed with.
LastIndex == Len(audio.out)
LastInput == Flatten(audio.in)[LastIndex]
LastLevel == audio.levels[LastIndex]
LastUsed  == audio.used[LastIndex]

\* The sample written last in a.
LastOutputOf(a) == a.out[Len(a.out)]

\* The output the claims state for input sample x, detected level and the
\* parameter values p read for the sample.
StatedOutput(x, level, p) ==
    MulFix(MulFix(calcCompressorGain(level, p.Threshold, p.Ratio, p.KneeWidth),
                  MulFix(x, p.DetGain)),
           p.OutputGain)

\* The gain-staged input without compression: input * DetGain * OutputGain.
StatedBound(x, p) == MulFix(MulFix(x, p.DetGain), p.OutputGain)

\* C7: processBlock writes exactly one output sample for each input sample
\* of each input channel, equal to g * (input * DetGain) * OutputGain with g
\* the gain calcCompressorGain returns for the level the detector produced
\* from input * DetGain and the Threshold, Ratio and KneeWidth read for the
\* sample; so |output| <= |input * DetGain * OutputGain|.  The call returns
\* when every sample of every channel is written.
C7_OutputIsGainTimesInput ==
    [][ /\ lastOp' = "detectLevel" =>
              /\ audio.inSample = MulFix(SampleValue, audio.regs.DetGain)
              /\ Len(audio'.levels) = Len(audio.out) + 1
              /\ audio'.levels[Len(audio'.levels)]
                    = detect(m_LeftDetector, audio.inSample).level
        /\ lastOp' = "writeOutput" =>
              /\ Len(audio'.out) = Len(audio.out) + 1
              /\ Len(audio'.levels) = Len(audio'.out)
              /\ Len(audio'.used) = Len(audio'.out)
              /\ audio'.in = audio.in
              /\ LastUsed'.DetGain = audio.regs.DetGain
              /\ LastOutputOf(audio') = StatedOutput(LastInput', LastLevel', LastUsed')
              /\ Abs(LastOutputOf(audio')) <= Abs(StatedBound(LastInput', LastUsed'))
              /\ (audio'.pc = "idle") = (Len(audio'.out) = Len(Flatten(audio.in)))
      ]_vars

C7_Witness ==
    /\ lastOp = "writeOutput"
    /\ prepared
    /\ audio.pc = "idle"
    /\ Len(audio.out) = 1
    /\ LastUsed.DetGain = LinOne
    /\ LastUsed.OutputGain = DbToLinear(QInt(6))
    /\ audio.out[1] # 0
    /\ Abs(audio.out[1]) < Abs(StatedBound(LastInput, LastUsed))

\* C8, as stated: each channel has its own detector, advanced only by the
\* detect calls on that channel's samples: processing a sample of the left
\* channel advances the left detector and leaves the right one alone,
\* processing a sample of the right channel advances the right detector and
\* leaves the left one alone, and the level is that of the channel's
\* detector.
C8_PerChannelDetectors ==
    [][ lastOp' = "detectLevel" =>
          /\ Channel = 1 =>
                /\ m_LeftDetector' = detect(m_LeftDetector, audio.inSample).det
                /\ m_RightDetector' = m_RightDetector
          /\ Channel = 2 =>
                /\ m_RightDetector' = detect(m_RightDetector, audio.inSample).det
                /\ m_LeftDetector' = m_LeftDetector
                /\ audio'.levels[Len(audio'.levels)]
                      = detect(m_RightDetector, audio.inSample).level
      ]_vars

\* The steps of a processBlock call.
AudioOps == { "processBlock", "applyInputGain", "detectLevel", "readGainArgument",
              "writeOutput" }

\* C8, amended: processBlock feeds the samples of every channel, the left
\* channel's and then the right channel's, to the left detector alone; no
\* step of processBlock changes the right detector, and the gain applied to
\* any channel's sample is computed from the level the left detector
\* returned for it.
C8_LeftDetectorOnly ==
    [][ /\ lastOp' = "detectLevel" =>
              /\ m_LeftDetector' = detect(m_LeftDetector, audio.inSample).det
              /\ audio'.levels[Len(audio'.levels)]
                    = detect(m_LeftDetector, audio.inSample).level
        /\ lastOp' \in AudioOps => m_RightDetector' = m_RightDetector
        /\ lastOp' \in AudioOps \ { "detectLevel" } => m_LeftDetector' = m_LeftDetector
        /\ lastOp' = "writeOutput" =>
              LastOutputOf(audio') = StatedOutput(LastInput', LastLevel', LastUsed')
      ]_vars

C8_Witness ==
    /\ lastOp = "writeOutput"
    /\ prepared
    /\ audio.pc = "idle"
    /\ audio.in = << << 0 >>, << -LinOne >> >>
    /\ m_LeftDetector.m_fEnvelope > 0
    /\ m_RightDetector.m_fEnvelope = 0
    /\ audio.levels[2] # QInt(-96)

\* C9: after a processBlock call that processed at least one sample,
\* GainReduction holds the gain reduction in dB computed during that call
\* (that of the last processed sample, as a positive number of dB or as the
\* negative yG), so that a meter polling it reads a non-zero value whenever
\* the last processed sample was attenuated.  Stated for the state in which
\* a call on a prepared stream has just returned.
C9_TelemetryUpdated ==
    (prepared /\ lastOp = "writeOutput" /\ audio.pc = "idle") =>
        LET yG == calcCompressorGainDb(LastLevel, LastUsed.Threshold,
                                       LastUsed.Ratio, LastUsed.KneeWidth)
        IN  GainReduction = yG \/ GainReduction = QNeg(yG)

ControlOps == { "moveSlider", "handleAsyncUpdate", "buttonClicked",
                "comboBoxChanged", "callLeftSetter", "callRightSetter" }

\* The field a setter is for, as the detector holds it.
FieldOf(det, setter) ==
    CASE setter = "setAttackTime"   -> det.m_fAttackTime_mSec
      [] setter = "setReleaseTime"  -> det.m_fReleaseTime_mSec
      [] setter = "setTCModeAnalog" -> det.m_bAnalogTC
      [] setter = "setDetectMode"   -> det.m_uDetectMode

\* The value the callback the message thread is in hands to its setters.
ValueSet ==
    CASE editor.call.setter = "setAttackTime"   -> AttackTime
      [] editor.call.setter = "setReleaseTime"  -> ReleaseTime
      [] editor.call.setter = "setTCModeAnalog" -> editor.digitalAnalogButton
      [] editor.call.setter = "setDetectMode"   -> editor.detectModeCombo - 1

\* The detector apart from the one field a setter is for.
ApartFrom(det, setter) ==
    CASE setter = "setAttackTime"   -> [det EXCEPT !.m_fAttackTime_mSec = QZero]
      [] setter = "setReleaseTime"  -> [det EXCEPT !.m_fReleaseTime_mSec = QZero]
      [] setter = "setTCModeAnalog" -> [det EXCEPT !.m_bAnalogTC = FALSE]
      [] setter = "setDetectMode"   -> [det EXCEPT !.m_uDetectMode = 0]

C12_WritesSeenByNextSample ==
    [][ /\ lastOp' = "applyInputGain" =>
              /\ audio'.regs = [audio.regs EXCEPT !.DetGain = DetGain]
              /\ audio'.inSample = MulFix(SampleValue, DetGain)
        /\ lastOp' = "readGainArgument" =>
              /\ Cardinality(audio.toRead \ audio'.toRead) = 1
              /\ \A field \in DOMAIN Memory :
                    audio'.regs[field]
                       = IF field \in audio.toRead \ audio'.toRead
                         THEN Memory[field] ELSE audio.regs[field]
        /\ lastOp' = "writeOutput" =>
              /\ LastUsed' = [audio.regs EXCEPT !.OutputGain = OutputGain]
              /\ LastOutputOf(audio') = StatedOutput(LastInput', LastLevel', LastUsed')
        /\ (InFlight /\ lastOp' \in { "detectLevel" } \cup ControlOps) =>
              audio'.regs = audio.regs
        /\ lastOp' = "detectLevel" =>
              audio'.toRead = { "Threshold", "Ratio", "KneeWidth" }
        /\ lastOp' = "writeOutput" => audio.toRead = {}
      ]_vars

\* The second sample of a block was computed with the make-up gain a slider
\* callback wrote while the first was being processed.
C12_Witness ==
    /\ lastOp = "writeOutput"
    /\ audio.pc = "idle"
    /\ Len(audio.used) = 2
    /\ audio.used[2].OutputGain # audio.used[1].OutputGain
    /\ audio.used[2].OutputGain = DbToLinear(QInt(6))
    /\ audio.used[2].DetGain = audio.used[1].DetGain
    /\ OutputGain = DbToLinear(QInt(6))

\* C13: in every reachable state AttackTime is in [0.02, 300] ms,
\* ReleaseTime in [10, 5000] ms, Threshold in [-60, 0] dB, Ratio in [1, 20]
\* and KneeWidth in [0, 20] dB; so AttackTime > 0, ReleaseTime > 0,
\* Ratio >= 1 and KneeWidth >= 0.
C13_ParametersInRange ==
    /\ QLe(Q(2, 100), AttackTime) /\ QLe(AttackTime, QInt(300))
    /\ QLe(QInt(10), ReleaseTime) /\ QLe(ReleaseTime, QInt(5000))
    /\ QLe(QInt(-60), Threshold)  /\ QLe(Threshold, QInt(0))
    /\ QLe(QInt(1), Ratio)        /\ QLe(Ratio, QInt(20))
    /\ QLe(QInt(0), KneeWidth)    /\ QLe(KneeWidth, QInt(20))
    /\ QLt(QZero, AttackTime) /\ QLt(QZero, ReleaseTime)

C13_Witness ==
    /\ lastOp = "moveSlider"
    /\ nControl = MaxControl
    /\ AttackTime = Q(2, 100)
    /\ Ratio = QInt(20)
    /\ editor.slider[SliderIndex("attackTime")] = Q(2, 100)

HostOps == { "prepareToPlay", "readInitArgument", "initLeftDetector",
             "initRightDetector" }

\* What init leaves a detector with for the configuration prepareToPlay
\* passes: the sample rate of the call, the time constants as they were
\* loaded for this init call, the time-constant mode read on entry.
InitialisedAsPassed(det) ==
    /\ det.m_fSampleRate = host.sampleRate
    /\ det.m_fAttackTime_mSec = host.args.AttackTime
    /\ det.m_fReleaseTime_mSec = host.args.ReleaseTime
    /\ det.m_bAnalogTC = host.analogueTC
    /\ det.m_fEnvelope = 0

\* The message thread has written none of AttackTime, ReleaseTime and
\* DigitalAnalogue since prepareToPlay read them for the init call at hand.
AsRead ==
    /\ host.args.AttackTime = AttackTime
    /\ host.args.ReleaseTime = ReleaseTime
    /\ host.analogueTC = DigitalAnalogue

\* The detector holds the processor's time constants and mode.
AsProcessor(det) ==
    /\ det.m_fAttackTime_mSec = AttackTime
    /\ det.m_fReleaseTime_mSec = ReleaseTime
    /\ det.m_bAnalogTC = DigitalAnalogue

C16_SelectedModeSurvivesPrepare ==
    (prepared /\ editor.open /\ ~InCallback) =>
        /\ m_LeftDetector.m_uDetectMode = editor.detectModeCombo - 1
        /\ m_RightDetector.m_uDetectMode = editor.detectModeCombo - 1

\* C17: for a threshold in [-60, 0], a ratio in [1, 20] and a knee width in
\* [0, 20], the gain calcCompressorGain returns does not increase with the
\* detected level: the gain for a level half a dB above the one passed is
\* not larger than the gain returned, across the knee boundaries and for
\* threshold + knee/2 > 0 too.
C17_GainMonotone ==
    (gainOut.returned /\ InSurface(gainArgs)) =>
        calcCompressorGain(QAdd(gainArgs.d, Q(1, 2)), gainArgs.T, gainArgs.R,
                           gainArgs.K)
            <= gainOut.lin

\* C18: the gain sliders and the processor's gain fields agree under the
\* dB-to-linear mapping: once the editor is constructed and its change
\* messages are delivered, and after any slider moves,
\* DetGain = 10^(detGain slider / 20) and
\* OutputGain = 10^(outputGain slider / 20); and constructing the editor,
\* with the change messages its constructor posts, changes neither DetGain
\* nor OutputGain.
C18_GainSlidersConsistent ==
    [][ /\ (editor'.open /\ editor'.pending = << >>) =>
              /\ DetGain' = DbToLinear(editor'.slider[SliderIndex("detGain")])
              /\ OutputGain' = DbToLinear(editor'.slider[SliderIndex("outputGain")])
        /\ lastOp' \in { "createEditor", "handleAsyncUpdate" } =>
              /\ DetGain' = DetGain
              /\ OutputGain' = OutputGain
      ]_vars

====
